---- MODULE Spec2Model ----
(***************************************************************************)
(* A model of api/extract.py: the single endpoint GET /api/extract, which  *)
(* fetches a page (fetch_url), classifies it (detect_html_type), extracts  *)
(* its main content with an external extractor and converts the result     *)
(* (convert_content, clean_markdown).                                      *)
(*                                                                         *)
(* Text is a sequence of characters, each character a one-character        *)
(* string; a character outside ASCII is written by its code point          *)
(* ("U8BBA").  Bytes are numbers 0..255.                                   *)
(***************************************************************************)
EXTENDS Naturals, Sequences, FiniteSets, TLC

VARIABLES
    \* one call of detect_html_type: its arguments and its result
    d_pc, d_url, d_html, d_ret,
    \* one call of clean_markdown: its argument and its result
    m_pc, m_text, m_ret,
    \* one call of convert_content: the markup (and the nodes it was
    \* serialised from), the format, what md() gave, and the result
    c_pc, c_nodes, c_html, c_output_format, c_markdown, c_ret,
    \* one request to GET /api/extract: where it stands (pc), its query
    \* parameters, the locals of extract_content and fetch_url, the exception
    \* in flight, the stage that failed, and the HTTP response it ends with
    pc, url, q_output_format, output_format, client, gets, response, attempts,
    detected, html, exc, failed, html_type, extracted_data, html_content,
    converted_content, reply,
    \* concurrent calls of fetch_url, one per request in flight: where each
    \* stands, the client it opened, the GETs it issued, how it ended; the
    \* clients open and closed; the clients made so far
    k_pc, k_client, k_gets, k_reply, k_open, k_closed, k_made

detect_vars == <<d_pc, d_url, d_html, d_ret>>
clean_vars == <<m_pc, m_text, m_ret>>
convert_vars == <<c_pc, c_nodes, c_html, c_output_format, c_markdown, c_ret>>
fetch_vars == <<client, gets, response, attempts, detected, html>>
handler_vars == <<html_type, extracted_data, html_content, converted_content>>
request_vars ==
    <<pc, url, q_output_format, output_format, exc, failed, reply,
      fetch_vars, handler_vars>>
clients_vars == <<k_pc, k_client, k_gets, k_reply, k_open, k_closed, k_made>>
vars == <<detect_vars, clean_vars, convert_vars, request_vars, clients_vars>>

(***************************************************************************)
(* Bounds of the model.                                                    *)
(***************************************************************************)
\* elements of a page given to detect_html_type
MaxElements == 2
\* pieces of a text given to clean_markdown
MaxPieces == 6
\* nodes of a markup given to convert_content
MaxNodes == 3
\* requests in flight at once
NReq == 2

(***************************************************************************)
(* Python's str operations, on sequences of characters.                    *)
(***************************************************************************)
Chars(s) == [i \in 1..Len(s) |-> SubSeq(s, i, i)]

UpperAlpha == Chars("ABCDEFGHIJKLMNOPQRSTUVWXYZ")
LowerAlpha == Chars("abcdefghijklmnopqrstuvwxyz")

\* str.lower() on one character: only cased letters change.
lower_char(c) ==
    IF \E i \in 1..Len(UpperAlpha) : UpperAlpha[i] = c
    THEN LowerAlpha[CHOOSE i \in 1..Len(UpperAlpha) : UpperAlpha[i] = c]
    ELSE c

upper_char(c) ==
    IF \E i \in 1..Len(LowerAlpha) : LowerAlpha[i] = c
    THEN UpperAlpha[CHOOSE i \in 1..Len(LowerAlpha) : LowerAlpha[i] = c]
    ELSE c

\* str.lower()
lower(s) == [i \in 1..Len(s) |-> lower_char(s[i])]

\* `sub in s` for two strings
In(sub, s) ==
    \E i \in 0..(Len(s) - Len(sub)) : SubSeq(s, i + 1, i + Len(sub)) = sub

\* s.find(sub) + 1: the first index of sub in s, 0 when there is none
IndexOf(sub, s) ==
    IF In(sub, s)
    THEN CHOOSE i \in 1..Len(s) :
             /\ SubSeq(s, i, i + Len(sub) - 1) = sub
             /\ \A j \in 1..(i - 1) : SubSeq(s, j, j + Len(sub) - 1) # sub
    ELSE 0

\* str.isspace() on one character
Whitespace == {" ", "\n", "\t", "\r"}

RECURSIVE lstrip(_)
lstrip(s) ==
    IF s # <<>> /\ Head(s) \in Whitespace THEN lstrip(Tail(s)) ELSE s

RECURSIVE rstrip(_)
rstrip(s) ==
    IF s # <<>> /\ s[Len(s)] \in Whitespace
    THEN rstrip(SubSeq(s, 1, Len(s) - 1))
    ELSE s

\* str.strip()
strip(s) == rstrip(lstrip(s))

\* str.split(sep) for a one-character separator: a sequence of strings
RECURSIVE split(_, _)
split(s, sep) ==
    IF \E i \in 1..Len(s) : s[i] = sep
    THEN LET i == CHOOSE k \in 1..Len(s) :
                      s[k] = sep /\ \A j \in 1..(k - 1) : s[j] # sep
         IN  <<SubSeq(s, 1, i - 1)>> \o split(SubSeq(s, i + 1, Len(s)), sep)
    ELSE <<s>>

\* sep.join(parts)
RECURSIVE join(_, _)
join(sep, parts) ==
    IF parts = <<>> THEN <<>>
    ELSE IF Len(parts) = 1 THEN parts[1]
    ELSE parts[1] \o sep \o join(sep, Tail(parts))

\* str.split() with no argument: the runs of non-whitespace characters
RECURSIVE split_whitespace(_)
split_whitespace(s) ==
    LET t == lstrip(s) IN
    IF t = <<>> THEN <<>>
    ELSE IF \E i \in 1..Len(t) : t[i] \in Whitespace
    THEN LET i == CHOOSE k \in 1..Len(t) :
                      t[k] \in Whitespace /\ \A j \in 1..(k - 1) : t[j] \notin Whitespace
         IN  <<SubSeq(t, 1, i - 1)>> \o split_whitespace(SubSeq(t, i, Len(t)))
    ELSE <<t>>

\* The sequences over S of length at most n
SeqUpTo(S, n) == UNION {[1..k -> S] : k \in 0..n}

(***************************************************************************)
(* detect_html_type                                                        *)
(***************************************************************************)
\* The URL substrings of the first rule
weixin_domains == {Chars("mp.weixin.qq.com"), Chars("weixin.qq.com")}

\* The class and id substrings of the second rule
forum_indicators ==
    { Chars("forum"), Chars("topic"), Chars("thread"), Chars("post"),
      Chars("reply"), Chars("comment"), Chars("discuss"),
      <<"U8BBA", "U575B">>, <<"U5E16", "U5B50">>, <<"U56DE", "U590D">>,
      <<"U8BC4", "U8BBA">>, <<"U8BA8", "U8BBA">> }

\* An element of the parsed page: its tag and the attributes it carries, each
\* attribute with its raw value.
HasAttr(element, name) == name \in DOMAIN element

\* element.get('class', []): the parser keeps class as a list of names, the
\* whitespace-separated words of the attribute.
get_class(element) ==
    IF HasAttr(element, "class") THEN split_whitespace(element.class) ELSE <<>>

\* element.get('id', ''): the raw value
get_id(element) == IF HasAttr(element, "id") THEN element.id ELSE <<>>

\* The first loop: every class name of every element that has a class
RECURSIVE collect_classes(_)
collect_classes(soup) ==
    IF soup = <<>> THEN <<>>
    ELSE (IF HasAttr(Head(soup), "class") THEN get_class(Head(soup)) ELSE <<>>)
         \o collect_classes(Tail(soup))

\* The second loop: the id of every element that has one
RECURSIVE collect_ids(_)
collect_ids(soup) ==
    IF soup = <<>> THEN <<>>
    ELSE (IF HasAttr(Head(soup), "id") THEN <<get_id(Head(soup))>> ELSE <<>>)
         \o collect_ids(Tail(soup))

\* The vocabulary joined with nothing between the names
classes_and_ids_unseparated(soup) ==
    lower(join(<<>>, collect_classes(soup) \o collect_ids(soup)))

\* ' '.join(classes_and_ids).lower()
classes_and_ids(soup) ==
    lower(join(<<" ">>, collect_classes(soup) \o collect_ids(soup)))

\* The first rule without the lowercasing of the URL
url_is_weixin_case_sensitive(url_) ==
    \E domain \in weixin_domains : In(domain, url_)

\* The first rule: some domain is a substring of the lowercased URL
url_is_weixin(url_) ==
    LET url_lower == lower(url_) IN
    \E domain \in weixin_domains : In(domain, url_lower)

\* The second rule: some indicator is a substring of the vocabulary
is_forum(soup) ==
    \E indicator \in forum_indicators : In(indicator, classes_and_ids(soup))

\* The result, with whether the page was parsed on the way (soup)
detect_html_type(html_, url_) ==
    IF url_is_weixin(url_) THEN [type |-> "weixin", soup |-> FALSE]
    ELSE IF is_forum(html_) THEN [type |-> "forum", soup |-> TRUE]
    ELSE [type |-> "article", soup |-> TRUE]

(***************************************************************************)
(* The inputs of detect_html_type.                                         *)
(***************************************************************************)
\* s with the characters at the positions in S in upper case
WithUpper(s, S) == [i \in 1..Len(s) |-> IF i \in S THEN upper_char(s[i]) ELSE s[i]]

CaseMasks == { {}, {1}, {4, 5, 6}, 1..16, {2, 9, 13} }

Hosts ==
    { WithUpper(Chars("mp.weixin.qq.com"), S) : S \in CaseMasks }
    \cup { Chars("weixin.qq.com"), Chars("WeiXin.QQ.com"), Chars("a.com"),
           Chars("qq.com"), Chars("mp.weixin.qq.co"), Chars("weixin-qq.com") }

Paths ==
    { <<>>, Chars("/s"), Chars("/?u=weixin.qq.com"), Chars("/r/MP.WEIXIN.QQ.COM/s"),
      Chars("/forum/thread") }

Urls == { Chars("http://") \o h \o p : h \in Hosts, p \in Paths }

ElementPool ==
    { [tag |-> "p"],
      [tag |-> "div", class |-> Chars("nav")],
      [tag |-> "div", class |-> Chars("for um")],
      [tag |-> "ul", class |-> Chars("Thread-List")],
      [tag |-> "div", class |-> Chars("main composter")],
      [tag |-> "a", id |-> Chars("top")],
      [tag |-> "div", id |-> Chars("Reply1")],
      [tag |-> "div", class |-> Chars("dis"), id |-> Chars("cuss")],
      [tag |-> "div", class |-> Chars("body"), id |-> <<"U8BBA", "U575B">>],
      [tag |-> "div", class |-> <<"U56DE">>, id |-> <<"U590D">>] }

Pages == SeqUpTo(ElementPool, MaxElements)

IdleDetect ==
    /\ d_pc = "idle"
    /\ d_url = <<>>
    /\ d_html = <<>>
    /\ d_ret = [type |-> "none", soup |-> FALSE]

IdleClean == m_pc = "idle" /\ m_text = <<>> /\ m_ret = <<>>

IdleConvert ==
    /\ c_pc = "idle"
    /\ c_nodes = <<>>
    /\ c_html = [type |-> "str", value |-> <<>>]
    /\ c_output_format = "html"
    /\ c_markdown = <<>>
    /\ c_ret = <<>>

NoResponse == [status |-> 0, content_type |-> <<>>, content |-> <<>>, page |-> <<>>]
NoExc == [class |-> "none"]
NoReply == [status |-> 0]
NoValue == [type |-> "unset"]

IdleRequest ==
    /\ pc = "idle"
    /\ url = <<>>
    /\ q_output_format = "absent"
    /\ output_format = "unset"
    /\ client = "none"
    /\ gets = 0
    /\ response = NoResponse
    /\ attempts = <<>>
    /\ detected = <<>>
    /\ html = NoValue
    /\ exc = NoExc
    /\ failed = "none"
    /\ html_type = "unset"
    /\ extracted_data = NoValue
    /\ html_content = NoValue
    /\ converted_content = <<>>
    /\ reply = NoReply

Requests == 1..NReq

IdleClients ==
    /\ k_pc = [r \in Requests |-> "idle"]
    /\ k_client = [r \in Requests |-> 0]
    /\ k_gets = [r \in Requests |-> 0]
    /\ k_reply = [r \in Requests |-> 0]
    /\ k_open = {}
    /\ k_closed = {}
    /\ k_made = 0

InitDetect ==
    /\ d_pc = "call"
    /\ d_url \in Urls
    /\ d_html \in Pages
    /\ d_ret = [type |-> "none", soup |-> FALSE]
    /\ IdleClean
    /\ IdleConvert
    /\ IdleRequest
    /\ IdleClients

DetectHtmlType ==
    /\ d_pc = "call"
    /\ d_ret' = detect_html_type(d_html, d_url)
    /\ d_pc' = "return"
    /\ UNCHANGED <<d_url, d_html, clean_vars, convert_vars, request_vars,
                   clients_vars>>

NextDetect == DetectHtmlType

SpecDetect == InitDetect /\ [][NextDetect]_vars

(***************************************************************************)
(* Properties of detect_html_type.                                         *)
(***************************************************************************)
\* sub occurs in s, letter case ignored
ContainsAnyCase(s, sub) ==
    \E i \in 0..(Len(s) - Len(sub)) :
        \A j \in 1..Len(sub) : lower_char(s[i + j]) = lower_char(sub[j])

\* The names of the page: every class name and every id
RECURSIVE PageNames(_)
PageNames(page) ==
    IF page = <<>> THEN {}
    ELSE LET e == Head(page) IN
         {get_class(e)[i] : i \in 1..Len(get_class(e))}
         \cup (IF HasAttr(e, "id") THEN {e.id} ELSE {})
         \cup PageNames(Tail(page))

VocabularyHasIndicator(page) ==
    \E name \in PageNames(page) :
        \E k \in forum_indicators : ContainsAnyCase(name, k)

\* The host of a URL: what follows "://" up to the first "/", "?" or "#"
HostOf(url_) ==
    LET k    == IndexOf(Chars("://"), url_)
        rest == IF k = 0 THEN url_ ELSE SubSeq(url_, k + 3, Len(url_))
        ends == {i \in 1..Len(rest) : rest[i] \in {"/", "?", "#"}}
        stop == IF ends = {} THEN Len(rest) + 1
                ELSE CHOOSE i \in ends : \A j \in ends : i <= j
    IN  SubSeq(rest, 1, stop - 1)

EndsWith(s, suffix) ==
    Len(suffix) <= Len(s) /\ SubSeq(s, Len(s) - Len(suffix) + 1, Len(s)) = suffix

\* The host is one of the domains, or a subdomain of one
HostMatches(url_) ==
    LET host == lower(HostOf(url_)) IN
    \E domain \in weixin_domains :
        host = domain \/ EndsWith(host, <<".">> \o domain)

\* C4: a URL that contains mp.weixin.qq.com, in any letter case, is labelled
\* weixin whatever the page holds, and the page is not parsed on that path.
C4_WeixinUrlAlwaysWeixin ==
    (d_pc = "return" /\ ContainsAnyCase(d_url, Chars("mp.weixin.qq.com")))
        => (d_ret.type = "weixin" /\ ~d_ret.soup)

\* A mixed-case mp.weixin.qq.com URL with a page full of forum vocabulary
C4_Witness ==
    /\ d_pc = "return"
    /\ ContainsAnyCase(d_url, Chars("mp.weixin.qq.com"))
    /\ ~In(Chars("mp.weixin.qq.com"), d_url)
    /\ VocabularyHasIndicator(d_html)
    /\ d_ret.type = "weixin"

\* C8 as stated: exactly one label, weixin exactly when the URL's host matches
\* a known domain, otherwise forum exactly when the vocabulary holds a forum
\* keyword, otherwise article.
C8_AsStated ==
    d_pc = "return" =>
        /\ d_ret.type \in {"weixin", "forum", "article"}
        /\ (d_ret.type = "weixin") <=> HostMatches(d_url)
        /\ (d_ret.type = "forum") <=>
               (~HostMatches(d_url) /\ VocabularyHasIndicator(d_html))

\* C8 amended: exactly one label, weixin exactly when the URL contains
\* weixin.qq.com anywhere (host, path or query), letter case ignored;
\* otherwise forum exactly when some class name or id contains one of the
\* indicators, letter case ignored; otherwise article.
C8_FirstMatchWins ==
    d_pc = "return" =>
        LET weixin == ContainsAnyCase(d_url, Chars("weixin.qq.com"))
            forum  == VocabularyHasIndicator(d_html)
        IN  /\ d_ret.type \in {"weixin", "forum", "article"}
            /\ (d_ret.type = "weixin") <=> weixin
            /\ (d_ret.type = "forum") <=> (~weixin /\ forum)
            /\ (d_ret.type = "article") <=> (~weixin /\ ~forum)

\* A URL with the domain in its query only, over a page with forum
\* vocabulary: the first rule decides
C8_Witness ==
    /\ d_pc = "return"
    /\ ~HostMatches(d_url)
    /\ VocabularyHasIndicator(d_html)
    /\ d_ret.type = "weixin"

(***************************************************************************)
(* clean_markdown                                                          *)
(***************************************************************************)
\* The length of the run of c that s starts with
RECURSIVE run_length(_, _)
run_length(s, c) ==
    IF s # <<>> /\ Head(s) = c THEN 1 + run_length(Tail(s), c) ELSE 0

\* re.sub(c{n,}, repl, s): every maximal run of at least n characters c
\* becomes repl
RECURSIVE sub_runs(_, _, _, _)
sub_runs(s, c, n, repl) ==
    IF s = <<>> THEN <<>>
    ELSE LET k == run_length(s, c) IN
         IF k = 0 THEN <<Head(s)>> \o sub_runs(Tail(s), c, n, repl)
         ELSE (IF k >= n THEN repl ELSE SubSeq(s, 1, k))
              \o sub_runs(SubSeq(s, k + 1, Len(s)), c, n, repl)

\* The label given to an image that has none
image_label == <<"U56FE", "U7247">>

\* re.sub(r'!\[\]\((.*?)\)', r'![label](\1)', s): "![](" up to the first ")"
\* that follows it, when no newline lies between
RECURSIVE sub_empty_image(_)
sub_empty_image(s) ==
    IF s = <<>> THEN <<>>
    ELSE LET open   == Chars("![](")
             closes == {i \in (Len(open) + 1)..Len(s) : s[i] = ")"}
             close  == IF closes = {} THEN 0
                       ELSE CHOOSE i \in closes : \A j \in closes : i <= j
             group  == SubSeq(s, Len(open) + 1, close - 1)
         IN  IF /\ Len(s) >= Len(open)
                /\ SubSeq(s, 1, Len(open)) = open
                /\ close # 0
                /\ ~In(<<"\n">>, group)
             THEN Chars("![") \o image_label \o Chars("](") \o group \o <<")">>
                  \o sub_empty_image(SubSeq(s, close + 1, Len(s)))
             ELSE <<Head(s)>> \o sub_empty_image(Tail(s))

\* line.strip() for every line
strip_each(lines) == [i \in 1..Len(lines) |-> strip(lines[i])]

clean_markdown(text) ==
    LET text1 == sub_runs(text, "\n", 3, <<"\n", "\n">>)
        text2 == join(<<"\n">>, strip_each(split(text1, "\n")))
        text3 == sub_runs(text2, "=", 3, <<>>)
        text4 == sub_empty_image(text3)
    IN  strip(text4)

\* The concatenation of a sequence of strings
concat(parts) == join(<<>>, parts)

Pieces ==
    { <<"\n">>, <<" ">>, <<"a">>, Chars("==="), Chars("![]("), <<")">> }

\* The texts given to clean_markdown
MdTexts == { concat(ps) : ps \in SeqUpTo(Pieces, MaxPieces) }

InitClean ==
    /\ m_pc = "call"
    /\ m_text \in MdTexts
    /\ m_ret = <<>>
    /\ IdleDetect
    /\ IdleConvert
    /\ IdleRequest
    /\ IdleClients

CleanMarkdown ==
    /\ m_pc = "call"
    /\ m_ret' = clean_markdown(m_text)
    /\ m_pc' = "return"
    /\ UNCHANGED <<m_text, detect_vars, convert_vars, request_vars,
                   clients_vars>>

NextClean == CleanMarkdown

SpecClean == InitClean /\ [][NextClean]_vars

\* C3: the result of clean_markdown holds no run of three or more newlines.
C3_NoThreeNewlines ==
    m_pc = "return" => ~In(<<"\n", "\n", "\n">>, m_ret)

(***************************************************************************)
(* convert_content                                                         *)
(***************************************************************************)
\* A Python value: a str with its characters, or None
PyStr(s) == [type |-> "str", value |-> s]
PyNone == [type |-> "NoneType"]

\* str(value)
str_of(value) == IF value.type = "str" THEN value.value ELSE Chars("None")

StartsWith(s, prefix) ==
    Len(prefix) <= Len(s) /\ SubSeq(s, 1, Len(prefix)) = prefix

Letters == {UpperAlpha[i] : i \in 1..Len(UpperAlpha)}
               \cup {LowerAlpha[i] : i \in 1..Len(LowerAlpha)}

\* The character references the parser replaces in text
CharRefs ==
    { [ref |-> Chars("&lt;"), char |-> "<"],
      [ref |-> Chars("&gt;"), char |-> ">"],
      [ref |-> Chars("&amp;"), char |-> "&"] }

\* BeautifulSoup(html, 'html.parser'), as far as get_text sees the result: the
\* nodes in document order.  "<!--" to "-->" is a comment; "<", then a letter
\* or "/", up to the next ">" is a tag; all else is text, with the character
\* references replaced and neighbouring text in one node.  `text` is the text
\* node being read.
RECURSIVE parse_html(_, _)
parse_html(s, text) ==
    LET flush == IF text = <<>> THEN <<>> ELSE <<[kind |-> "text", data |-> text]>>
        copen == Chars("<!--")
        cclose == Chars("-->")
        after == SubSeq(s, Len(copen) + 1, Len(s))
        gts == {i \in 1..Len(s) : s[i] = ">"}
        gt == IF gts = {} THEN 0 ELSE CHOOSE i \in gts : \A j \in gts : i <= j
    IN  IF s = <<>> THEN flush
        ELSE IF StartsWith(s, copen) /\ In(cclose, after)
        THEN LET k == IndexOf(cclose, after) IN
             flush \o <<[kind |-> "comment", data |-> SubSeq(after, 1, k - 1)]>>
                   \o parse_html(SubSeq(after, k + Len(cclose), Len(after)), <<>>)
        ELSE IF /\ Head(s) = "<"
                /\ Len(s) >= 2
                /\ s[2] \in Letters \cup {"/"}
                /\ gt # 0
        THEN flush \o <<[kind |-> "tag", data |-> SubSeq(s, 2, gt - 1)]>>
                   \o parse_html(SubSeq(s, gt + 1, Len(s)), <<>>)
        ELSE IF \E r \in CharRefs : StartsWith(s, r.ref)
        THEN LET r == CHOOSE r \in CharRefs : StartsWith(s, r.ref) IN
             parse_html(SubSeq(s, Len(r.ref) + 1, Len(s)), text \o <<r.char>>)
        ELSE parse_html(Tail(s), text \o <<Head(s)>>)

\* The strings get_text joins: every text node, stripped and dropped when
\* that leaves nothing if strip is set; comments and tags are no text nodes.
RECURSIVE all_strings(_, _)
all_strings(soup, strip_flag) ==
    IF soup = <<>> THEN <<>>
    ELSE LET node == Head(soup)
             string == IF strip_flag THEN strip(node.data) ELSE node.data
         IN  (IF node.kind = "text" /\ ~(strip_flag /\ string = <<>>)
              THEN <<string>> ELSE <<>>)
             \o all_strings(Tail(soup), strip_flag)

\* soup.get_text(separator=..., strip=...)
get_text(soup, separator, strip_flag) ==
    join(separator, all_strings(soup, strip_flag))

\* The "text" branch with the markup returned as it came
text_of_markup_unparsed(html_) == html_

\* The "text" branch
text_of_markup(html_) ==
    get_text(parse_html(html_, <<>>), <<"\n">>, TRUE)

\* What md(html) may give: the converter is an external library, and its
\* result is any of these texts.
md(html_) ==
    { <<>>, Chars("a"), Chars("a\n\n\n\nb"), Chars("Title\n=====\n\nbody"),
      Chars(" a  \n![](u)") }

\* convert_content(html, output_format), markdown being the result of md(html)
convert_content(html_, output_format_, markdown) ==
    LET html_str == IF html_.type # "str" THEN str_of(html_) ELSE html_.value IN
    IF output_format_ = "html" THEN html_str
    ELSE IF output_format_ = "markdown" THEN clean_markdown(markdown)
    ELSE IF output_format_ = "text" THEN text_of_markup(html_str)
    ELSE html_str

(***************************************************************************)
(* The inputs of convert_content: markup as the extractor serialises it,   *)
(* node by node, with "<", ">" and "&" of a text written as character      *)
(* references.                                                             *)
(***************************************************************************)
NodePool ==
    { [kind |-> "tag", src |-> Chars("<p>")],
      [kind |-> "tag", src |-> Chars("</p>")],
      [kind |-> "tag", src |-> Chars("<b class=\"x\">")],
      [kind |-> "tag", src |-> Chars("<br/>")],
      [kind |-> "comment", src |-> Chars("<!--c-->")],
      [kind |-> "text", src |-> Chars(" x "), text |-> Chars(" x ")],
      [kind |-> "text", src |-> Chars("y\nz"), text |-> Chars("y\nz")],
      [kind |-> "text", src |-> Chars("\n "), text |-> Chars("\n ")],
      [kind |-> "text", src |-> Chars("&lt;b&gt;"), text |-> Chars("<b>")] }

\* No two text nodes side by side: the serialisation would make them one
Markups ==
    { nodes \in SeqUpTo(NodePool, MaxNodes) :
        \A i \in 1..(Len(nodes) - 1) :
            ~(nodes[i].kind = "text" /\ nodes[i + 1].kind = "text") }

serialize(nodes) == concat([i \in 1..Len(nodes) |-> nodes[i].src])

OutputFormats == {"html", "markdown", "text", "xml", "TEXT"}

InitConvert ==
    /\ c_pc = "call"
    /\ c_nodes \in Markups
    /\ c_html \in {PyStr(serialize(c_nodes))}
                     \cup (IF c_nodes = <<>> THEN {PyNone} ELSE {})
    /\ c_output_format \in OutputFormats
    /\ c_markdown = <<>>
    /\ c_ret = <<>>
    /\ IdleDetect
    /\ IdleClean
    /\ IdleRequest
    /\ IdleClients

ConvertContent ==
    /\ c_pc = "call"
    /\ \E markdown \in (IF c_output_format = "markdown"
                        THEN md(str_of(c_html)) ELSE {<<>>}) :
          /\ c_markdown' = markdown
          /\ c_ret' = convert_content(c_html, c_output_format, markdown)
    /\ c_pc' = "return"
    /\ UNCHANGED <<c_nodes, c_html, c_output_format, detect_vars, clean_vars,
                   request_vars, clients_vars>>

NextConvert == ConvertContent

SpecConvert == InitConvert /\ [][NextConvert]_vars

(***************************************************************************)
(* Properties of convert_content.                                          *)
(***************************************************************************)
\* The text nodes of a markup, each stripped, those left empty dropped
RECURSIVE StrippedTexts(_)
StrippedTexts(nodes) ==
    IF nodes = <<>> THEN <<>>
    ELSE (IF Head(nodes).kind = "text" /\ strip(Head(nodes).text) # <<>>
          THEN <<strip(Head(nodes).text)>> ELSE <<>>)
         \o StrippedTexts(Tail(nodes))

HasAngle(s) == \E i \in 1..Len(s) : s[i] \in {"<", ">"}

\* C7: the text output is the text nodes of the markup, each stripped of its
\* surrounding whitespace, joined by newlines; no tag or comment of the markup
\* is in it, so it holds an angle bracket only where a text node does.
C7_TextIsTextNodes ==
    (c_pc = "return" /\ c_output_format = "text" /\ c_html.type = "str") =>
        /\ c_ret = join(<<"\n">>, StrippedTexts(c_nodes))
        /\ HasAngle(c_ret) =>
              \E i \in 1..Len(c_nodes) :
                  c_nodes[i].kind = "text" /\ HasAngle(c_nodes[i].text)

\* Two text nodes with whitespace around them, a tag between
C7_Witness ==
    /\ c_pc = "return"
    /\ c_output_format = "text"
    /\ Len(c_nodes) = 3
    /\ c_nodes[1].kind = "text" /\ strip(c_nodes[1].text) # c_nodes[1].text
    /\ c_nodes[2].kind = "tag"
    /\ c_nodes[3].kind = "text"
    /\ c_ret = Chars("x\ny\nz")

(***************************************************************************)
(* fetch_url: the decoding of the response.  A body is a sequence of       *)
(* bytes; a codec either decodes it or raises.                             *)
(***************************************************************************)
Cont(b) == b >= 128 /\ b <= 191

\* bytes.decode('utf-8') succeeds
RECURSIVE utf8_valid(_)
utf8_valid(b) ==
    IF b = <<>> THEN TRUE
    ELSE IF b[1] < 128 THEN utf8_valid(Tail(b))
    ELSE IF b[1] >= 194 /\ b[1] <= 223
    THEN Len(b) >= 2 /\ Cont(b[2]) /\ utf8_valid(SubSeq(b, 3, Len(b)))
    ELSE IF b[1] >= 224 /\ b[1] <= 239
    THEN /\ Len(b) >= 3 /\ Cont(b[2]) /\ Cont(b[3])
         /\ (b[1] = 224 => b[2] >= 160)
         /\ (b[1] = 237 => b[2] <= 159)
         /\ utf8_valid(SubSeq(b, 4, Len(b)))
    ELSE IF b[1] >= 240 /\ b[1] <= 244
    THEN /\ Len(b) >= 4 /\ Cont(b[2]) /\ Cont(b[3]) /\ Cont(b[4])
         /\ (b[1] = 240 => b[2] >= 144)
         /\ (b[1] = 244 => b[2] <= 143)
         /\ utf8_valid(SubSeq(b, 5, Len(b)))
    ELSE FALSE

\* bytes.decode('gb2312') succeeds: ASCII, or a lead byte of rows 1-9 and
\* 16-87 with a trail byte A1..FE
RECURSIVE gb2312_valid(_)
gb2312_valid(b) ==
    IF b = <<>> THEN TRUE
    ELSE IF b[1] < 128 THEN gb2312_valid(Tail(b))
    ELSE /\ (b[1] >= 161 /\ b[1] <= 169) \/ (b[1] >= 176 /\ b[1] <= 247)
         /\ Len(b) >= 2 /\ b[2] >= 161 /\ b[2] <= 254
         /\ gb2312_valid(SubSeq(b, 3, Len(b)))

\* A two-byte GBK character
GbkPair(lead, trail) ==
    lead >= 129 /\ lead <= 254 /\ trail >= 64 /\ trail <= 254 /\ trail # 127

\* bytes.decode('gbk') succeeds
RECURSIVE gbk_valid(_)
gbk_valid(b) ==
    IF b = <<>> THEN TRUE
    ELSE IF b[1] < 128 THEN gbk_valid(Tail(b))
    ELSE /\ Len(b) >= 2 /\ GbkPair(b[1], b[2])
         /\ gbk_valid(SubSeq(b, 3, Len(b)))

Digit(b) == b >= 48 /\ b <= 57

\* bytes.decode('gb18030') succeeds: GBK and the four-byte characters
RECURSIVE gb18030_valid(_)
gb18030_valid(b) ==
    IF b = <<>> THEN TRUE
    ELSE IF b[1] < 128 THEN gb18030_valid(Tail(b))
    ELSE IF Len(b) >= 2 /\ GbkPair(b[1], b[2])
    THEN gb18030_valid(SubSeq(b, 3, Len(b)))
    ELSE /\ Len(b) >= 4
         /\ b[1] >= 129 /\ b[1] <= 254 /\ Digit(b[2])
         /\ b[3] >= 129 /\ b[3] <= 254 /\ Digit(b[4])
         /\ gb18030_valid(SubSeq(b, 5, Len(b)))

\* bytes.decode('cp1252') succeeds: five bytes have no character
cp1252_valid(b) == \A i \in 1..Len(b) : b[i] \notin {129, 141, 143, 144, 157}

\* The codec an encoding name stands for; names are matched without regard
\* to case, and a name no codec has raises LookupError.
lookup(name) ==
    LET n == lower(name) IN
    IF n \in {Chars("utf-8"), Chars("utf8")} THEN "utf_8"
    ELSE IF n = Chars("gb2312") THEN "gb2312"
    ELSE IF n = Chars("gbk") THEN "gbk"
    ELSE IF n = Chars("gb18030") THEN "gb18030"
    ELSE IF n \in {Chars("iso-8859-1"), Chars("latin-1")} THEN "latin_1"
    ELSE IF n \in {Chars("windows-1252"), Chars("cp1252")} THEN "cp1252"
    ELSE "unknown"

codec_valid(codec, content) ==
    IF codec = "utf_8" THEN utf8_valid(content)
    ELSE IF codec = "gb2312" THEN gb2312_valid(content)
    ELSE IF codec = "gbk" THEN gbk_valid(content)
    ELSE IF codec = "gb18030" THEN gb18030_valid(content)
    ELSE IF codec = "cp1252" THEN cp1252_valid(content)
    ELSE codec = "latin_1"

\* content.decode(encoding): the codec used and whether it decoded; error is
\* the exception raised otherwise
decode(content, encoding) ==
    LET codec == lookup(encoding) IN
    [ encoding |-> encoding,
      codec |-> codec,
      error |-> IF codec = "unknown" THEN "LookupError"
                ELSE IF codec_valid(codec, content) THEN "none"
                ELSE "UnicodeDecodeError" ]

\* What follows the last occurrence of sep in s: s.split(sep)[-1]
RECURSIVE after_last(_, _)
after_last(s, sep) ==
    IF In(sep, s)
    THEN after_last(SubSeq(s, IndexOf(sep, s) + Len(sep), Len(s)), sep)
    ELSE s

\* What precedes the first occurrence of sep in s: s.split(sep)[0]
before_first(s, sep) ==
    IF In(sep, s) THEN SubSeq(s, 1, IndexOf(sep, s) - 1) ELSE s

\* The charset of a lowercased content-type, mapped to the codec that
\* contains GB2312
charset_of_gb18030(content_type) ==
    LET charset == before_first(after_last(content_type, Chars("charset=")), <<";">>)
    IN  IF charset \in {Chars("gb2312"), Chars("gbk")} THEN Chars("gb18030")
        ELSE charset

\* content_type.split('charset=')[-1].split(';')[0]
charset_of(content_type) ==
    before_first(after_last(content_type, Chars("charset=")), <<";">>)

\* The encoding the third step decodes with, given what chardet detected
\* (<<>> when it detected nothing): GB18030 for GB2312 and GBK, UTF-8 when
\* nothing was detected
detected_encoding(detected_) ==
    LET encoding == IF detected_ # <<>>
                       /\ lower(detected_) \in {Chars("gb2312"), Chars("gbk")}
                    THEN Chars("gb18030") ELSE detected_
    IN  IF encoding # <<>> THEN encoding ELSE Chars("utf-8")

\* The first step is taken: the header carries a charset
has_charset(content_type) == In(Chars("charset="), content_type)

\* The decodings with UTF-8 tried before the declared charset
decode_steps_utf8_first(response_, detected_) ==
    LET content_type == lower(response_.content_type)
        first  == decode(response_.content, Chars("utf-8"))
        second == decode(response_.content, charset_of(content_type))
        third  == decode(response_.content, detected_encoding(detected_))
    IN  IF first.error = "none" THEN <<first>>
        ELSE IF has_charset(content_type) /\ second.error = "none"
        THEN <<first, second>>
        ELSE (IF has_charset(content_type) THEN <<first, second>> ELSE <<first>>)
             \o <<third>>

\* The decodings fetch_url tries on a response, in order, up to the first
\* that succeeds
decode_steps(response_, detected_) ==
    LET content_type == lower(response_.content_type)
        first  == decode(response_.content, charset_of(content_type))
        second == decode(response_.content, Chars("utf-8"))
        third  == decode(response_.content, detected_encoding(detected_))
        tried  == IF has_charset(content_type) THEN <<first>> ELSE <<>>
    IN  IF has_charset(content_type) /\ first.error = "none" THEN tried
        ELSE IF second.error = "none" THEN tried \o <<second>>
        ELSE tried \o <<second, third>>

\* chardet.detect is called: the declared charset, if any, and UTF-8 have
\* both failed
detection_needed(response_) ==
    LET content_type == lower(response_.content_type) IN
    /\ ~(/\ has_charset(content_type)
         /\ decode(response_.content, charset_of(content_type)).error = "none")
    /\ decode(response_.content, Chars("utf-8")).error # "none"

\* What chardet.detect may give as the encoding, <<>> for None: the detector
\* is an external heuristic, and any of these is possible for any body.
Detections ==
    { <<>>, Chars("GB2312"), Chars("GBK"), Chars("ISO-8859-1"), Chars("Windows-1252") }

(***************************************************************************)
(* The responses of the network.                                           *)
(***************************************************************************)
Bodies ==
    { <<60, 112, 62>>,              \* "<p>" in ASCII
      <<228, 184, 173>>,            \* U+4E2D in UTF-8
      <<214, 208>>,                 \* U+4E2D in GB2312
      <<60, 233, 70>>,              \* "<", then U+9555 in GBK, not in GB2312
      <<129, 48, 129, 48>>,         \* U+0080 in GB18030, four bytes
      <<255, 255>> }                \* in none of them

ContentTypes ==
    { <<>>,                                   \* no content-type header
      Chars("text/html"),
      Chars("text/html; charset=utf-8"),
      Chars("text/html; charset=GB2312"),
      Chars("text/html;charset=gbk; x=y"),
      Chars("text/html; charset=\"utf-8\""),
      Chars("text/html; charset=ISO-8859-1") }

\* The pages the bodies parse to, as detect_html_type sees them
RequestPages ==
    { <<[tag |-> "p"]>>,
      <<[tag |-> "div", class |-> Chars("Thread-List")], [tag |-> "a", id |-> Chars("top")]>> }

\* The final responses a GET may give: an error status, or 200 with a
\* content-type header, a body and the page the body holds
Responses ==
    { [status |-> st, content_type |-> <<>>, content |-> <<>>, page |-> <<>>] :
        st \in {404, 500} }
    \cup [status : {200}, content_type : ContentTypes, content : Bodies,
          page : RequestPages]

(***************************************************************************)
(* The request: GET /api/extract?url=...&output_format=...                 *)
(***************************************************************************)
RequestUrls == { Chars("http://mp.weixin.qq.com/s"), Chars("http://a.com/t") }

\* The output_format of the query string, "absent" when it has none
QueryFormats == {"absent", "html", "markdown", "text", "xml"}

\* The parameter declared with every value allowed
validate_output_format_unchecked(value) ==
    [ok |-> TRUE, value |-> IF value = "absent" THEN "text" ELSE value]

\* The declaration of the parameter, Optional[Literal["html", "markdown",
\* "text"]] = "text": the framework gives the default when the query has
\* none, and refuses a value that is none of the literals before the handler
\* runs.
validate_output_format(value) ==
    IF value = "absent" THEN [ok |-> TRUE, value |-> "text"]
    ELSE IF value \in {"html", "markdown", "text"} THEN [ok |-> TRUE, value |-> value]
    ELSE [ok |-> FALSE, value |-> value]

\* The response the framework makes of an HTTPException the handler raised
respond_exception(e) ==
    [status |-> e.status_code, body |-> [detail |-> e.detail]]

\* Line 46: the exception fetch_url raises for any exception inside its try
fetch_except(e) ==
    [ class |-> "HTTPException", status_code |-> 400,
      detail |-> [message |-> "Error fetching URL", str |-> e.class] ]

\* The handler's except clause with an HTTPException passed on as it is
handler_except_reraise(e) ==
    IF e.class = "HTTPException" THEN e
    ELSE [ class |-> "HTTPException", status_code |-> 500,
           detail |-> [message |-> "", str |-> e.class] ]

\* Lines 184-185: `except Exception as e` catches every exception of the
\* try block, an HTTPException of fetch_url among them, and raises
\* HTTPException(500, str(e)).
handler_except(e) ==
    [ class |-> "HTTPException", status_code |-> 500,
      detail |-> [message |-> "", str |-> e.class] ]

\* extract_html_content(data)
extract_html_content(data) ==
    IF data.type = "dict"
    THEN IF "html" \in DOMAIN data THEN data.html ELSE PyStr(<<>>)
    ELSE PyStr(<<>>)

\* What extractor.extract may return: the extractor is an external library
ExtractedMarkups ==
    { serialize(nodes) : nodes \in SeqUpTo(NodePool, 1) }
    \cup { Chars(" x <p>y\nz</p><!--c-->") }

ExtractResults ==
    { [type |-> "dict", html |-> PyStr(m)] : m \in ExtractedMarkups }
    \cup { [type |-> "dict", html |-> PyNone], [type |-> "dict"], PyNone }

Init ==
    /\ pc = "request"
    /\ url \in RequestUrls
    /\ q_output_format \in QueryFormats
    /\ output_format = "unset"
    /\ client = "none"
    /\ gets = 0
    /\ response = NoResponse
    /\ attempts = <<>>
    /\ detected = <<>>
    /\ html = NoValue
    /\ exc = NoExc
    /\ failed = "none"
    /\ html_type = "unset"
    /\ extracted_data = NoValue
    /\ html_content = NoValue
    /\ converted_content = <<>>
    /\ reply = NoReply
    /\ IdleDetect
    /\ IdleClean
    /\ IdleConvert
    /\ IdleClients

other_vars == <<detect_vars, clean_vars, convert_vars, clients_vars>>

\* Lines 147-151: the query is valid, the handler is called
Accept ==
    /\ pc = "request"
    /\ validate_output_format(q_output_format).ok
    /\ output_format' = validate_output_format(q_output_format).value
    /\ pc' = "fetch_url"
    /\ UNCHANGED <<url, q_output_format, exc, failed, reply, fetch_vars,
                   handler_vars, other_vars>>

\* Lines 147-151: the query is not valid, the handler is not called
Reject ==
    /\ pc = "request"
    /\ ~validate_output_format(q_output_format).ok
    /\ reply' = [status |-> 422, body |-> [detail |-> "validation"]]
    /\ pc' = "done"
    /\ UNCHANGED <<url, q_output_format, output_format, exc, failed, fetch_vars,
                   handler_vars, other_vars>>

\* Line 14: async with httpx.AsyncClient() as client
OpenClient ==
    /\ pc = "fetch_url"
    /\ client' = "open"
    /\ pc' = "get"
    /\ UNCHANGED <<url, q_output_format, output_format, exc, failed, reply,
                   gets, response, attempts, detected, html, handler_vars,
                   other_vars>>

\* Line 16: client.get(url) raises: the host is unreachable
GetFails ==
    /\ pc = "get"
    /\ gets' = gets + 1
    /\ exc' = [class |-> "ConnectError"]
    /\ failed' = "fetch"
    /\ pc' = "fetch_except"
    /\ UNCHANGED <<url, q_output_format, output_format, reply, client, response,
                   attempts, detected, html, handler_vars, other_vars>>

\* Line 16: client.get(url) returns a response
GetResponds ==
    /\ pc = "get"
    /\ gets' = gets + 1
    /\ response' \in Responses
    /\ pc' = "raise_for_status"
    /\ UNCHANGED <<url, q_output_format, output_format, exc, failed, reply,
                   client, attempts, detected, html, handler_vars, other_vars>>

\* Line 17: response.raise_for_status()
RaiseForStatus ==
    /\ pc = "raise_for_status"
    /\ IF response.status >= 200 /\ response.status <= 299
       THEN pc' = "decode" /\ UNCHANGED <<exc, failed>>
       ELSE /\ exc' = [class |-> "HTTPStatusError"]
            /\ failed' = "fetch"
            /\ pc' = "fetch_except"
    /\ UNCHANGED <<url, q_output_format, output_format, reply, fetch_vars,
                   handler_vars, other_vars>>

\* Lines 19-43: the decoding; the first that succeeds is returned, and the
\* exception of the last step, when that fails too, is raised
Decode ==
    /\ pc = "decode"
    /\ \E encoding \in (IF detection_needed(response) THEN Detections ELSE {<<>>}) :
          LET steps == decode_steps(response, encoding)
              last  == steps[Len(steps)]
          IN  /\ detected' = encoding
              /\ attempts' = steps
              /\ IF last.error = "none"
                 THEN /\ html' = [type |-> "str", page |-> response.page]
                      /\ pc' = "exit_return"
                      /\ UNCHANGED <<exc, failed>>
                 ELSE /\ exc' = [class |-> last.error]
                      /\ failed' = "decode"
                      /\ pc' = "fetch_except"
                      /\ UNCHANGED html
    /\ UNCHANGED <<url, q_output_format, output_format, reply, client, gets,
                   response, handler_vars, other_vars>>

\* Lines 45-46: except Exception as e: raise HTTPException(400, ...)
FetchExcept ==
    /\ pc = "fetch_except"
    /\ exc' = fetch_except(exc)
    /\ pc' = "exit_raise"
    /\ UNCHANGED <<url, q_output_format, output_format, failed, reply,
                   fetch_vars, handler_vars, other_vars>>

\* Line 14: the end of the async with block, on a return and on an exception
\* alike; the locals of fetch_url are gone
CloseClient ==
    /\ pc \in {"exit_return", "exit_raise"}
    /\ client' = "closed"
    /\ response' = NoResponse
    /\ attempts' = <<>>
    /\ detected' = <<>>
    /\ pc' = IF pc = "exit_return" THEN "detect" ELSE "handler_except"
    /\ UNCHANGED <<url, q_output_format, output_format, exc, failed, reply,
                   gets, html, handler_vars, other_vars>>

\* Line 166: html_type = detect_html_type(html, url)
DetectType ==
    /\ pc = "detect"
    /\ html_type' = detect_html_type(html.page, url).type
    /\ pc' = "extract"
    /\ UNCHANGED <<url, q_output_format, output_format, exc, failed, reply,
                   fetch_vars, extracted_data, html_content, converted_content,
                   other_vars>>

\* Lines 168-171: extractor.extract(...) returns, extract_html_content
Extract ==
    /\ pc = "extract"
    /\ extracted_data' \in ExtractResults
    /\ html_content' = extract_html_content(extracted_data')
    /\ pc' = "convert"
    /\ UNCHANGED <<url, q_output_format, output_format, exc, failed, reply,
                   fetch_vars, html_type, converted_content, other_vars>>

\* Line 168: extractor.extract(...) raises
ExtractFails ==
    /\ pc = "extract"
    /\ exc' = [class |-> "ExtractorError"]
    /\ failed' = "extract"
    /\ pc' = "handler_except"
    /\ UNCHANGED <<url, q_output_format, output_format, reply, fetch_vars,
                   handler_vars, other_vars>>

\* Lines 174-182: convert_content returns, and the handler returns the payload
Convert ==
    /\ pc = "convert"
    /\ \E markdown \in (IF output_format = "markdown"
                        THEN md(str_of(html_content)) ELSE {<<>>}) :
          /\ converted_content' = convert_content(html_content, output_format, markdown)
          /\ reply' = [ status |-> 200,
                        body |-> [ url |-> url,
                                   content |-> converted_content',
                                   format |-> output_format,
                                   type |-> html_type,
                                   success |-> TRUE ] ]
    /\ pc' = "done"
    /\ UNCHANGED <<url, q_output_format, output_format, exc, failed, fetch_vars,
                   html_type, extracted_data, html_content, other_vars>>

\* Line 174: convert_content raises, inside md or the parser
ConvertFails ==
    /\ pc = "convert"
    /\ output_format \in {"markdown", "text"}
    /\ exc' = [class |-> "ConverterError"]
    /\ failed' = "convert"
    /\ pc' = "handler_except"
    /\ UNCHANGED <<url, q_output_format, output_format, reply, fetch_vars,
                   handler_vars, other_vars>>

\* Lines 184-185, and the framework's response to the exception raised there
HandlerExcept ==
    /\ pc = "handler_except"
    /\ exc' = handler_except(exc)
    /\ reply' = respond_exception(exc')
    /\ pc' = "done"
    /\ UNCHANGED <<url, q_output_format, output_format, failed, fetch_vars,
                   handler_vars, other_vars>>

Next ==
    \/ Accept
    \/ Reject
    \/ OpenClient
    \/ GetFails
    \/ GetResponds
    \/ RaiseForStatus
    \/ Decode
    \/ FetchExcept
    \/ CloseClient
    \/ DetectType
    \/ Extract
    \/ ExtractFails
    \/ Convert
    \/ ConvertFails
    \/ HandlerExcept

Spec == Init /\ [][Next]_vars

(***************************************************************************)
(* Properties of a request.                                                *)
(***************************************************************************)
\* C1: a request whose fetch fails, by a network error or an error status, is
\* answered with status 400.
C1_FetchFailureIs400 ==
    (pc = "done" /\ failed = "fetch") => reply.status = 400

\* The content-type header declares charset=name, letter case ignored
Declares(content_type, name) ==
    LET key == Chars("charset=") \o name IN
    \E i \in 0..(Len(content_type) - Len(key)) :
        /\ lower(SubSeq(content_type, i + 1, i + Len(key))) = key
        /\ (i + Len(key) = Len(content_type) \/ content_type[i + Len(key) + 1] = ";")

\* fetch_url has decoded, or failed to, and has not left yet
Decoded == attempts # <<>>

Codecs(steps) == {steps[i].codec : i \in 1..Len(steps)}

\* C2 as stated: with charset=gb2312 declared, the body is decoded with the
\* GB18030 codec and the GB2312 codec is not used.
C2_AsStated ==
    (Decoded /\ Declares(response.content_type, Chars("gb2312"))) =>
        /\ "gb2312" \notin Codecs(attempts)
        /\ pc = "exit_return" => attempts[Len(attempts)].codec = "gb18030"

\* C2 amended: with charset=gb2312 declared, the body is first decoded with
\* the GB2312 codec, and that decoding is returned when it succeeds; GB18030
\* is used only as the third step, after the GB2312 and UTF-8 decodings have
\* both failed and the detector has named GB2312 or GBK.
C2_DeclaredGb2312UsesGb2312 ==
    (Decoded /\ Declares(response.content_type, Chars("gb2312"))) =>
        /\ attempts[1].codec = "gb2312"
        /\ gb2312_valid(response.content) =>
              (Len(attempts) = 1 /\ pc = "exit_return")
        /\ \A i \in 1..Len(attempts) :
              attempts[i].codec = "gb18030" =>
                  /\ i = 3
                  /\ attempts[1].error # "none" /\ attempts[2].error # "none"
                  /\ lower(detected) \in {Chars("gb2312"), Chars("gbk")}

\* charset=gb2312 declared, a body with a character GB2312 lacks, and the
\* detector naming GB2312: the third step decodes it with GB18030
C2_Witness ==
    /\ pc = "exit_return"
    /\ Declares(response.content_type, Chars("gb2312"))
    /\ ~gb2312_valid(response.content)
    /\ Len(attempts) = 3
    /\ attempts[1].codec = "gb2312"
    /\ attempts[3].codec = "gb18030"

\* The charset a content-type declares: what follows its "charset=" up to
\* the next ";"
DeclaredCharset(content_type) ==
    LET ct   == lower(content_type)
        k    == IndexOf(Chars("charset="), ct)
        rest == SubSeq(ct, k + Len(Chars("charset=")), Len(ct))
        semi == {i \in 1..Len(rest) : rest[i] = ";"}
    IN  IF semi = {} THEN rest
        ELSE SubSeq(rest, 1, (CHOOSE i \in semi : \A j \in semi : i <= j) - 1)

\* The encodings of the three steps, in order, for a response and a detection
ExpectedEncodings(resp, detection) ==
    (IF ContainsAnyCase(resp.content_type, Chars("charset="))
     THEN <<DeclaredCharset(resp.content_type)>> ELSE <<>>)
    \o <<Chars("utf-8")>>
    \o << IF detection = <<>> THEN Chars("utf-8")
          ELSE IF \E n \in {Chars("gb2312"), Chars("gbk")} :
                      Len(n) = Len(detection) /\ ContainsAnyCase(detection, n)
          THEN Chars("gb18030")
          ELSE detection >>

\* C9: the decodings are tried in the fixed order declared charset (when the
\* header has one), UTF-8, detected encoding (GB18030 for GB2312 and GBK,
\* UTF-8 for none); each step is tried only after every earlier one failed,
\* the first success is returned, and fetch_url gives up only after the last.
C9_DecodeOrder ==
    Decoded =>
        LET expected == ExpectedEncodings(response, detected) IN
        /\ Len(attempts) <= Len(expected)
        /\ \A i \in 1..Len(attempts) : attempts[i].encoding = expected[i]
        /\ \A i \in 1..(Len(attempts) - 1) : attempts[i].error # "none"
        /\ (attempts[Len(attempts)].error = "none") <=> (pc = "exit_return")
        /\ (attempts[Len(attempts)].error # "none") =>
              (Len(attempts) = Len(expected) /\ failed = "decode")

\* A declared charset that fails, UTF-8 that fails, and a detection that
\* decodes
C9_Witness ==
    /\ pc = "exit_return"
    /\ Len(attempts) = 3
    /\ attempts[1].error = "LookupError"
    /\ attempts[2].error = "UnicodeDecodeError"
    /\ attempts[3].codec = "latin_1"
    /\ attempts[3].error = "none"

KnownFormats == {"html", "markdown", "text"}

\* C5 as stated: a request with an output_format that is none of html,
\* markdown, text ends with the extracted markup, unchanged, as its content.
C5_AsStated ==
    (pc = "done" /\ q_output_format \notin KnownFormats \cup {"absent"}) =>
        /\ reply.status = 200
        /\ reply.body.content = str_of(html_content)

\* C5 amended: a request with such an output_format is refused before the
\* handler runs (status 422, nothing fetched, nothing converted), so that
\* convert_content is only ever called with html, markdown or text; the
\* fallback is what convert_content itself does with any other value: the
\* markup unchanged, as for html.
C5_UnknownFormatRefused ==
    /\ (pc = "done" /\ q_output_format \notin KnownFormats \cup {"absent"}) =>
          /\ reply.status = 422
          /\ client = "none" /\ gets = 0
          /\ html_content = NoValue
    /\ output_format \in KnownFormats \cup {"unset"}
    /\ html_content # NoValue =>
          \A f \in {"xml", "TEXT", "md", ""} :
              /\ convert_content(html_content, f, <<>>)
                    = convert_content(html_content, "html", <<>>)
              /\ convert_content(html_content, f, <<>>) = str_of(html_content)

C5_Witness ==
    /\ pc = "done"
    /\ q_output_format = "xml"
    /\ reply.status = 422

IsSuccess(r) ==
    /\ r.status = 200
    /\ DOMAIN r.body = {"url", "content", "format", "type", "success"}
    /\ r.body.success = TRUE

IsError(r) ==
    /\ r.status >= 400
    /\ DOMAIN r.body = {"detail"}

\* C6: a request ends with a success payload {url, content, format, type,
\* success: true} or with an error that carries a detail and no content,
\* never both; a success only when no stage failed; and a failure after the
\* fetch (decoding, extraction, conversion) ends with status 500.
C6_SuccessOrError ==
    pc = "done" =>
        /\ IsSuccess(reply) \/ IsError(reply)
        /\ ~(IsSuccess(reply) /\ IsError(reply))
        /\ IsSuccess(reply) =>
              /\ failed = "none"
              /\ reply.body.url = url
              /\ reply.body.format = output_format
              /\ reply.body.type = html_type
              /\ reply.body.content = converted_content
        /\ failed # "none" => IsError(reply)
        /\ failed \in {"decode", "extract", "convert"} => reply.status = 500

\* A body that no step decodes: the request ends with 500
C6_Witness ==
    /\ pc = "done"
    /\ failed = "decode"
    /\ gets = 1
    /\ reply.status = 500
    /\ reply.body.detail.str = "HTTPException"

(***************************************************************************)
(* fetch_url under concurrent requests: the network client.  The data of   *)
(* a request is left out here; what a GET gives and whether the body       *)
(* decodes are free choices.                                               *)
(***************************************************************************)
\* One client object made before any request and used by all of them
shared_client(made) == 1

\* httpx.AsyncClient(): a new client object, made inside the call
new_client(made) == made + 1

rest_vars == <<detect_vars, clean_vars, convert_vars, request_vars>>

InitClients ==
    /\ k_pc = [r \in Requests |-> "fetch_url"]
    /\ k_client = [r \in Requests |-> 0]
    /\ k_gets = [r \in Requests |-> 0]
    /\ k_reply = [r \in Requests |-> 0]
    /\ k_open = {}
    /\ k_closed = {}
    /\ k_made = 0
    /\ IdleDetect
    /\ IdleClean
    /\ IdleConvert
    /\ IdleRequest

\* Line 14: async with httpx.AsyncClient() as client
K_OpenClient(r) ==
    /\ k_pc[r] = "fetch_url"
    /\ k_client' = [k_client EXCEPT ![r] = new_client(k_made)]
    /\ k_made' = k_made + 1
    /\ k_open' = k_open \cup {new_client(k_made)}
    /\ k_pc' = [k_pc EXCEPT ![r] = "get"]
    /\ UNCHANGED <<k_gets, k_reply, k_closed, rest_vars>>

\* Lines 16-17: the one GET; it raises, or raise_for_status does, or neither
K_Get(r) ==
    /\ k_pc[r] = "get"
    /\ k_gets' = [k_gets EXCEPT ![r] = @ + 1]
    /\ \E got \in {"raises", "response"} :
          k_pc' = [k_pc EXCEPT ![r] = IF got = "raises" THEN "except" ELSE "decode"]
    /\ UNCHANGED <<k_client, k_reply, k_open, k_closed, k_made, rest_vars>>

\* Lines 19-43: a decoding succeeds and is returned, or the last one raises
K_Decode(r) ==
    /\ k_pc[r] = "decode"
    /\ \E decoded \in BOOLEAN :
          k_pc' = [k_pc EXCEPT ![r] = IF decoded THEN "exit_return" ELSE "except"]
    /\ UNCHANGED <<k_client, k_gets, k_reply, k_open, k_closed, k_made, rest_vars>>

\* Lines 45-46: raise HTTPException(400, ...)
K_Except(r) ==
    /\ k_pc[r] = "except"
    /\ k_pc' = [k_pc EXCEPT ![r] = "exit_raise"]
    /\ UNCHANGED <<k_client, k_gets, k_reply, k_open, k_closed, k_made, rest_vars>>

\* Line 14: the async with block is left, by the return or by the exception:
\* the client is closed
K_CloseClient(r) ==
    /\ k_pc[r] \in {"exit_return", "exit_raise"}
    /\ k_open' = k_open \ {k_client[r]}
    /\ k_closed' = k_closed \cup {k_client[r]}
    /\ k_pc' = [k_pc EXCEPT ![r] = IF @ = "exit_return" THEN "returned" ELSE "raised"]
    /\ UNCHANGED <<k_client, k_gets, k_reply, k_made, rest_vars>>

\* Lines 163-185: the rest of the handler, and the response of the request
K_Respond(r) ==
    /\ k_pc[r] \in {"returned", "raised"}
    /\ \E status \in (IF k_pc[r] = "returned" THEN {200, 500} ELSE {500}) :
          k_reply' = [k_reply EXCEPT ![r] = status]
    /\ k_pc' = [k_pc EXCEPT ![r] = "done"]
    /\ UNCHANGED <<k_client, k_gets, k_open, k_closed, k_made, rest_vars>>

NextClients ==
    \E r \in Requests :
        \/ K_OpenClient(r)
        \/ K_Get(r)
        \/ K_Decode(r)
        \/ K_Except(r)
        \/ K_CloseClient(r)
        \/ K_Respond(r)

\* The event loop runs every call that can take a step, and a GET returns or
\* raises within the client's timeout: no call stands still for ever.
SpecClients == InitClients /\ [][NextClients]_vars /\ WF_vars(NextClients)

\* The positions inside the async with block
InBlock == {"get", "decode", "except", "exit_return", "exit_raise"}

\* In every state: a client per request that no other request uses, one GET
\* at most, the client open inside the async with block and closed after it
ClientScoped ==
    \A r \in Requests :
        /\ k_gets[r] <= 1
        /\ k_pc[r] \in InBlock => k_client[r] \in k_open
        /\ k_pc[r] \in {"returned", "raised", "done"} =>
              /\ k_client[r] \in k_closed /\ k_client[r] \notin k_open
              /\ k_gets[r] = 1
        /\ k_reply[r] # 0 => k_client[r] \in k_closed
        /\ \A q \in Requests \ {r} :
              k_client[r] # 0 => k_client[q] # k_client[r]

\* C10: every request opens a client of its own, which no other request
\* uses; it issues one GET on it and no more; the client is open while
\* fetch_url works with it, and every client that was opened is in the end
\* closed, on the return path and on the exception path alike, before the
\* request is answered.
C10_ClientPerRequest ==
    /\ []ClientScoped
    /\ \A r \in Requests :
          (k_pc[r] \in InBlock) ~> (k_pc[r] = "done" /\ k_client[r] \in k_closed)

\* Two requests whose calls overlapped, one answered after a decoding and one
\* after a failed fetch, both clients closed, no client open
C10_Witness ==
    \E r, q \in Requests :
        /\ k_pc[r] = "done" /\ k_reply[r] = 200
        /\ k_pc[q] = "done" /\ k_reply[q] = 500
        /\ k_client[r] # k_client[q]
        /\ {k_client[r], k_client[q]} \subseteq k_closed
        /\ k_open = {}

====
